---- MODULE Spec2Model ----
(***************************************************************************)
(* RemoteRig: a serial device relayed over UDP.                            *)
(*                                                                         *)
(* Bridge (ss_server.py): a UDP thread and a serial thread joined by two   *)
(* bounded queues, to_serial (requests) and to_udp (frames read from the   *)
(* device), under a main routine that starts and terminates them.          *)
(* Byte relay (serial_server.py): a main routine that opens the device on  *)
(* a Connect datagram and runs a reader and a writer thread on it.         *)
(* Controller (ss_client.py): a UDP thread and a serial thread joined by   *)
(* two bounded queues, to_udp (frames read from the local device) and      *)
(* to_serial (what is to be written to it), under a main routine.          *)
(* Local client (serial_client.py): a main routine that sends the Connect, *)
(* opens the local device and runs a reader and a writer thread on it.     *)
(*                                                                         *)
(* Specifications: Spec (Bridge), SpecAddr (Bridge, two senders),          *)
(* SpecRead (__read_data of the Bridge on every byte sequence), SpecRelay  *)
(* (byte relay), SpecCtl and SpecCtlFair (Controller), SpecPeers (Bridge   *)
(* or Controller), SpecCli (local client), SpecRelayEnds (byte relay or    *)
(* local client).                                                          *)
(*                                                                         *)
(* Blocking calls with a timeout (Queue.get, Queue.put, recvfrom, read)    *)
(* are modelled without a clock: a call that times out with no effect is   *)
(* a stuttering step, and a call whose timeout has an effect (queue.Full,  *)
(* queue.Empty in UDPThrd.__process) is an action enabled while the queue  *)
(* is full, respectively empty.                                            *)
(***************************************************************************)
EXTENDS Integers, Sequences, FiniteSets, TLC

\* ------------------------------------------------------------------ bounds
\* Datagrams the Bridge receives in one run.
MaxReq == 4
\* Bytes the relayed device delivers, and datagrams the relay's writer
\* receives, in one run.
MaxRelay == 2
\* Bytes the Controller's local device delivers in one run.
MaxCtlBytes == 3
\* Longest byte sequence the device delivers to one __read_data.
MaxFrame == 3
\* Capacity of each inter-thread queue (queue.Queue(100) in the source,
\* scaled down so that the full-queue paths are reached).
QueueSize == 2

\* Byte values the device delivers.
Byte == {1, 2}
\* The payload of a Data Request (a bytearray).
Payloads == {<<1, 2>>}
\* What opening the serial port does for a Connect's configuration:
\* it opens, raises serial.SerialException, or raises ValueError.
Configs == {"ok", "nodev", "badparam"}

NoItem ==
  [id |-> 0, src |-> "none", rqst |-> "none", cfg |-> "none", data |-> <<>>]

\* Replies of the device to one write: silence, one byte, two bytes.
Replies == {<<>>, <<1>>, <<1, 2>>}

VARIABLES
  \* ---- ss_server.py
  uPc,        \* UDPThrd: "recv", "put", "get", "done", "crashed"
  uTerminate, \* UDPThrd.__terminate
  uItem,      \* the unpickled request UDPThrd.__process is handling
  uAddr,      \* UDPThrd.__addr, the source address recvfrom returned last
  sPc,        \* SerialThrd: "wait", "main", "read", "dispatch", "done",
              \*   "crashed"
  sTerminate, \* SerialThrd.__terminate
  sItem,      \* the request the serial thread dequeued last
  sData,      \* __read_data's list of read(1) results
  toSerial,   \* SerialServer.__to_serial
  toUdp,      \* SerialServer.__to_udp
  devOpen,    \* the serial port is open (SerialThrd.__ser)
  devOut,     \* bytes the device still delivers before it falls silent
  devCloses,  \* times __ser.close() was executed
  devReply,   \* the bytes the device answers the last write with
  mPc,        \* SerialServer.main: "running", "join_udp", "join_serial", "exit"
  \* ---- history of the run (not program state)
  rcvd,       \* the requests received, in order; a request's id is its index
  enq,        \* ids put on to_serial, in order
  fullDrop,   \* ids dropped because to_serial was full
  idleDrop,   \* ids dequeued and discarded by the wait-for-connect loop
  written,    \* ids whose data was handed to __ser.write, in order
  sent,       \* the Response datagrams sent, in order
  faulted,    \* a device I/O fault happened since the last successful open
  openFailed, \* an open of the device failed
  discSeen,   \* Disconnect Requests dequeued by the main loop
  \* ---- serial_server.py
  rmPc,        \* SerialClient.main: "wait_connect", "running", "term_reader",
               \*   "join_reader", "join_writer", "exit"
  rdPc,        \* ReaderThrd: "idle" (not started), "loop", "done", "crashed"
  wrPc,        \* WriterThrd: "idle" (not started), "loop", "done", "crashed"
  rdTerminate, \* ReaderThrd.__terminate
  wrTerminate, \* WriterThrd.__terminate
  rDev,        \* SerialClient.__ser: "none", "open", "closed"
  \* ---- history of the run (not program state)
  rRead,       \* bytes the reader read from the device, in order
  rSent,       \* payloads of the datagrams the reader sent, in order
  rArrived,    \* payloads of the datagrams the writer received, in order
  rWrote,      \* payloads the writer wrote to the device, in order
  rIoOnClosed, \* a read or write was issued on the closed device handle
  rCtl,        \* kinds of the control requests main received, in order
  \* ---- ss_client.py
  cuPc,        \* UDPThrd: "connect", "loop", "put", "done", "crashed"
  cuTerminate, \* UDPThrd.__terminate
  csPc,        \* SerialThrd: "open", "read", "dispatch", "response", "done",
               \*   "crashed"
  csTerminate, \* SerialThrd.__terminate
  csData,      \* __read_data's list of read(1) results
  cToSerial,   \* SerialClient.__to_serial
  cToUdp,      \* SerialClient.__to_udp
  cDev,        \* SerialThrd.__ser: "none", "open", "closed"
  cmPc,        \* SerialClient.main: "running", "join_udp", "join_serial",
               \*   "exit"
  cSockIn,     \* Response datagrams waiting at the Controller's socket
  \* ---- history of the run (not program state)
  cRead,       \* bytes read from the local device, in order
  cNet,        \* the datagrams sent to the Bridge, in order
  cPut,        \* what the network thread put on to_serial, in order
  cWrote,      \* what the serial thread wrote to the local device, in order
  csFrame,     \* the number of frames __read_data has returned to run
  cDisp,       \* the numbers of the frames put on to_udp, in order
  cAns,        \* per write: the frame the Response was produced for, and
               \*   the frame dispatched last before the write
  \* ---- serial_client.py
  lmPc,         \* SerialClient.main: "start", "open", "running", "term_reader",
                \*   "join_reader", "join_writer", "exit"
  lrdPc,        \* ReaderThrd: "idle", "loop", "done", "crashed"
  lwrPc,        \* WriterThrd: "idle", "loop", "done", "crashed"
  lrdTerminate, \* ReaderThrd.__terminate
  lwrTerminate, \* WriterThrd.__terminate
  lDev,         \* SerialClient.__ser: "none", "open"
  \* ---- history of the run (not program state)
  lRead,        \* bytes read from the local device, in order
  lNet,         \* the datagrams the client has sent, in order
  lArrived,     \* payloads of the datagrams the writer received, in order
  lWrote        \* payloads written to the local device, in order

bridgeVars == <<uPc, uTerminate, uItem, uAddr, sPc, sTerminate, sItem, sData,
                toSerial, toUdp, devOpen, devOut, devCloses, devReply,
                mPc, rcvd, enq, fullDrop, idleDrop, written, sent, faulted,
                openFailed, discSeen>>

relayVars == <<rmPc, rdPc, wrPc, rdTerminate, wrTerminate, rDev,
               rRead, rSent, rArrived, rWrote, rIoOnClosed, rCtl>>

ctlVars == <<cuPc, cuTerminate, csPc, csTerminate, csData, cToSerial,
             cToUdp, cDev, cmPc, cSockIn, cRead, cNet, cPut, cWrote,
             csFrame, cDisp, cAns>>

cFrameHist == <<csFrame, cDisp, cAns>>

cliVars == <<lmPc, lrdPc, lwrPc, lrdTerminate, lwrTerminate, lDev,
             lRead, lNet, lArrived, lWrote>>

vars == <<bridgeVars, relayVars, ctlVars, cliVars>>

\* The state of the programs other than the one an action belongs to.
notBridge == <<relayVars, ctlVars, cliVars>>
notRelay == <<bridgeVars, ctlVars, cliVars>>
notCtl == <<bridgeVars, relayVars, cliVars>>
notCli == <<bridgeVars, relayVars, ctlVars>>

\* ------------------------------------------------------------ queue.Queue
QFull(q) == Len(q) >= QueueSize
\* (mutant of QPut: a LIFO queue)
QPutFront(q, x) == <<x>> \o q
\* Queue.put on a queue with room, Queue.get on a non-empty queue
QPut(q, x) == Append(q, x)
QGet(q) == Head(q)
QRest(q) == Tail(q)

\* (mutant of StripLast: the list is returned as read)
StripNothing(data) == data

\* data[:len(data)-1] guarded by len(data) > 0  (__read_data's return)
StripLast(data) ==
  IF Len(data) > 0 THEN SubSeq(data, 1, Len(data) - 1) ELSE data

\* ------------------------------------------------------------------- Init
BridgeInit ==
  /\ uPc = "recv" /\ uTerminate = FALSE /\ uItem = NoItem /\ uAddr = "none"
  /\ sPc = "wait" /\ sTerminate = FALSE /\ sItem = NoItem /\ sData = <<>>
  /\ toSerial = <<>> /\ toUdp = <<>>
  /\ devOpen = FALSE /\ devOut = <<>> /\ devCloses = 0 /\ devReply = <<>>
  /\ mPc = "running"
  /\ rcvd = <<>> /\ enq = <<>> /\ fullDrop = {} /\ idleDrop = {}
  /\ written = <<>> /\ sent = <<>>
  /\ faulted = FALSE /\ openFailed = FALSE /\ discSeen = 0

RelayInit ==
  /\ rmPc = "wait_connect" /\ rdPc = "idle" /\ wrPc = "idle"
  /\ rdTerminate = FALSE /\ wrTerminate = FALSE /\ rDev = "none"
  /\ rRead = <<>> /\ rSent = <<>> /\ rArrived = <<>> /\ rWrote = <<>>
  /\ rIoOnClosed = FALSE /\ rCtl = <<>>

CtlInit ==
  /\ cuPc = "connect" /\ cuTerminate = FALSE
  /\ csPc = "open" /\ csTerminate = FALSE /\ csData = <<>>
  /\ cToSerial = <<>> /\ cToUdp = <<>>
  /\ cDev = "none" /\ cmPc = "running" /\ cSockIn = <<>>
  /\ cRead = <<>> /\ cNet = <<>> /\ cPut = <<>> /\ cWrote = <<>>
  /\ csFrame = 0 /\ cDisp = <<>> /\ cAns = <<>>

CliInit ==
  /\ lmPc = "start" /\ lrdPc = "idle" /\ lwrPc = "idle"
  /\ lrdTerminate = FALSE /\ lwrTerminate = FALSE /\ lDev = "none"
  /\ lRead = <<>> /\ lNet = <<>> /\ lArrived = <<>> /\ lWrote = <<>>

Init == BridgeInit /\ RelayInit /\ CtlInit /\ CliInit

uVars == <<uPc, uTerminate, uItem, uAddr>>
sVars == <<sPc, sTerminate, sItem, sData>>
devVars == <<devOpen, devOut, devCloses, devReply>>
sHist == <<idleDrop, written, faulted, openFailed, discSeen>>

\* =============================================================== UDPThrd
\* The datagrams a Controller can send: well-formed requests.
Requests ==
  {[id |-> 0, src |-> "none", rqst |-> "connect", cfg |-> c, data |-> <<>>] :
     c \in Configs}
  \cup {[id |-> 0, src |-> "none", rqst |-> "disconnect", cfg |-> "none",
          data |-> <<>>]}
  \cup {[id |-> 0, src |-> "none", rqst |-> "data", cfg |-> "none",
          data |-> p] : p \in Payloads}

\* The source address of the datagrams when one Controller talks to the
\* Bridge, and when two do.
OneController == {"A"}
TwoControllers == {"A", "B"}

\* (mutant of AddrAfterRecv: the address of the first datagram is kept)
AddrKeptFirst(old, src) == IF old = "none" THEN src ELSE old

\* "data, self.__addr = self.__sock.recvfrom(512)": self.__addr after a
\* datagram from src
AddrAfterRecv(old, src) == src

\* run: while not terminate -> exit
UExit ==
  /\ uPc = "recv" /\ uTerminate
  /\ uPc' = "done"
  /\ UNCHANGED <<notBridge, uAddr, uTerminate, uItem, sVars, toSerial, toUdp,
                 devVars, mPc, rcvd, enq, fullDrop, sHist, sent>>

\* run: recvfrom returns a datagram, pickle.loads decodes it, __process starts
URecvOf(rqsts, srcs) ==
  /\ uPc = "recv" /\ ~uTerminate
  /\ Len(rcvd) < MaxReq
  /\ \E r \in rqsts, a \in srcs :
       LET item == [r EXCEPT !.id = Len(rcvd) + 1, !.src = a] IN
       /\ rcvd' = Append(rcvd, item)
       /\ uItem' = item
       /\ uAddr' = AddrAfterRecv(uAddr, a)
  /\ uPc' = "put"
  /\ UNCHANGED <<notBridge, uTerminate, sVars, toSerial, toUdp, devVars, mPc,
                 enq, fullDrop, sHist, sent>>

\* run with one Controller on the network
URecv == URecvOf(Requests, OneController)

\* A datagram whose bytes pickle.loads cannot decode.
Garbage ==
  [id |-> 0, src |-> "none", rqst |-> "garbage", cfg |-> "none",
   data |-> <<>>]

\* run: recvfrom returns a datagram and pickle.loads(data) raises on it: the
\* try around recvfrom has ended, nothing catches it, the thread ends.
URecvMalformed ==
  /\ uPc = "recv" /\ ~uTerminate
  /\ Len(rcvd) < MaxReq
  /\ \E a \in OneController :
       /\ rcvd' = Append(rcvd, [Garbage EXCEPT !.id = Len(rcvd) + 1, !.src = a])
       /\ uAddr' = AddrAfterRecv(uAddr, a)
  /\ uPc' = "crashed"
  /\ UNCHANGED <<notBridge, uTerminate, uItem, sVars, toSerial, toUdp,
                 devVars, mPc, enq, fullDrop, sHist, sent>>

\* run: recvfrom raises a socket error other than timeout: only
\* socket.timeout is caught, the thread ends.
URecvRaise ==
  /\ uPc = "recv" /\ ~uTerminate
  /\ uPc' = "crashed"
  /\ UNCHANGED <<notBridge, uAddr, uTerminate, uItem, sVars, toSerial, toUdp,
                 devVars, mPc, rcvd, enq, fullDrop, sHist, sent>>

\* (mutant of UPut: __process returns right after the put, without waiting
\* for and sending the Response)
UPutNoWait ==
  /\ uPc = "put" /\ ~QFull(toSerial)
  /\ toSerial' = QPut(toSerial, uItem)
  /\ enq' = Append(enq, uItem.id)
  /\ uPc' = "recv"
  /\ uItem' = NoItem
  /\ UNCHANGED <<notBridge, uAddr, uTerminate, sVars, toUdp, devVars, mPc, rcvd,
                 fullDrop, sHist, sent>>

\* __process: writer_q.put(data, timeout=0.1) succeeds
UPut ==
  /\ uPc = "put" /\ ~QFull(toSerial)
  /\ toSerial' = QPut(toSerial, uItem)
  /\ enq' = Append(enq, uItem.id)
  /\ uPc' = "get"
  /\ UNCHANGED <<notBridge, uAddr, uTerminate, uItem, sVars, toUdp, devVars, mPc,
                 rcvd, fullDrop, sHist, sent>>

\* __process: put raises queue.Full -> print, return False (no Response)
UPutFull ==
  /\ uPc = "put" /\ QFull(toSerial)
  /\ fullDrop' = fullDrop \cup {uItem.id}
  /\ uPc' = "recv"
  /\ uItem' = NoItem
  /\ UNCHANGED <<notBridge, uAddr, uTerminate, sVars, toSerial, toUdp, devVars, mPc,
                 rcvd, enq, sHist, sent>>

\* The Response datagram [{"resp":..., "data":[item]}]; "to" and "for" record
\* the request being answered and the request the frame was read for.
Response(has, item) ==
  [to |-> uItem.id, addr |-> uAddr, resp |-> has,
   data |-> IF has THEN item.data ELSE <<>>,
   for |-> IF has THEN item.for ELSE 0]

\* (mutant of UGetItem: the frame is read from the head of to_udp and sent,
\* but left on the queue)
UGetItemKeep ==
  /\ uPc = "get" /\ toUdp # <<>>
  /\ toUdp' = toUdp
  /\ \/ /\ sent' = Append(sent, Response(TRUE, QGet(toUdp)))
        /\ uPc' = "recv"
        /\ uItem' = NoItem
     \/ /\ sent' = sent
        /\ uPc' = "crashed"
        /\ uItem' = uItem
  /\ UNCHANGED <<notBridge, uAddr, uTerminate, sVars, toSerial, devVars, mPc, rcvd,
                 enq, fullDrop, sHist>>

\* __process: reader_q.get(timeout=0.1) returns an item; sendto resp True
UGetItem ==
  /\ uPc = "get" /\ toUdp # <<>>
  /\ toUdp' = QRest(toUdp)
  /\ \/ /\ sent' = Append(sent, Response(TRUE, QGet(toUdp)))
        /\ uPc' = "recv"
        /\ uItem' = NoItem
     \/ \* sendto raises a socket error: uncaught
        /\ sent' = sent
        /\ uPc' = "crashed"
        /\ uItem' = uItem
  /\ UNCHANGED <<notBridge, uAddr, uTerminate, sVars, toSerial, devVars, mPc, rcvd,
                 enq, fullDrop, sHist>>

\* (mutant of UGetEmpty: queue.Empty handled by returning silently)
UGetEmptyQuiet ==
  /\ uPc = "get" /\ toUdp = <<>>
  /\ uPc' = "recv"
  /\ uItem' = NoItem
  /\ UNCHANGED <<notBridge, uAddr, uTerminate, sVars, toSerial, toUdp, devVars, mPc,
                 rcvd, enq, fullDrop, sHist, sent>>

\* __process: get raises queue.Empty; sendto resp False
UGetEmpty ==
  /\ uPc = "get" /\ toUdp = <<>>
  /\ \/ /\ sent' = Append(sent, Response(FALSE, NoItem))
        /\ uPc' = "recv"
        /\ uItem' = NoItem
     \/ \* sendto raises a socket error: uncaught
        /\ sent' = sent
        /\ uPc' = "crashed"
        /\ uItem' = uItem
  /\ UNCHANGED <<notBridge, uAddr, uTerminate, sVars, toSerial, toUdp, devVars, mPc,
                 rcvd, enq, fullDrop, sHist>>

UDPThrd ==
  \/ UExit \/ URecv \/ URecvMalformed \/ URecvRaise
  \/ UPut \/ UPutFull \/ UGetItem \/ UGetEmpty

\* ============================================================ SerialThrd
uHist == <<rcvd, enq, fullDrop, sent>>

\* Python binds self as the first positional argument of a method call.
BoundCallArgs == 1
\* Parameters that "def __do_disconnect():" declares.
do_disconnect_params == 0
\* self.__do_disconnect() reaches the method body only if the arities agree;
\* otherwise the call raises TypeError before the body runs.
DoDisconnectCallable == (BoundCallArgs = do_disconnect_params)

\* __do_connect: serial.Serial(...) opens the port (True), raises
\* SerialException (False), or raises ValueError, whose handler names
\* serial.ValueException, an attribute pyserial does not have (the lookup
\* raises AttributeError out of __do_connect).
do_connect(cfg) ==
  CASE cfg = "ok" -> "true"
    [] cfg = "nodev" -> "false"
    [] OTHER -> "raise"

\* wait-for-connect loop: if self.__terminate: return
SWaitExit ==
  /\ sPc = "wait" /\ sTerminate
  /\ sPc' = "done"
  /\ UNCHANGED <<notBridge, uVars, sTerminate, sItem, sData, toSerial, toUdp,
                 devVars, mPc, uHist, sHist>>

\* wait-for-connect loop: get(timeout=1.0) returns a connect item
SWaitConnect ==
  /\ sPc = "wait" /\ ~sTerminate /\ toSerial # <<>>
  /\ QGet(toSerial).rqst = "connect"
  /\ toSerial' = QRest(toSerial)
  /\ sItem' = QGet(toSerial)
  /\ LET r == do_connect(QGet(toSerial).cfg) IN
       /\ devOpen' = (r = "true")
       /\ sPc' = CASE r = "true" -> "main"
                   [] r = "false" -> "done"
                   [] OTHER -> "crashed"
       /\ openFailed' = (openFailed \/ r # "true")
       /\ faulted' = (faulted /\ r # "true")
  /\ UNCHANGED <<notBridge, uVars, sTerminate, sData, toUdp, devOut,
                 devCloses, devReply, mPc, uHist, idleDrop, written,
                 discSeen>>

\* (mutant of SWaitOther: the wait loop hands a data item to the device)
SWaitOtherWrites ==
  /\ sPc = "wait" /\ ~sTerminate /\ toSerial # <<>>
  /\ QGet(toSerial).rqst # "connect"
  /\ toSerial' = QRest(toSerial)
  /\ sItem' = QGet(toSerial)
  /\ idleDrop' = idleDrop \cup {QGet(toSerial).id}
  /\ written' = Append(written, QGet(toSerial).id)
  /\ UNCHANGED <<notBridge, uVars, sPc, sTerminate, sData, toUdp, devVars,
                 mPc, uHist, faulted, openFailed, discSeen>>

\* wait-for-connect loop: any other item -> continue
SWaitOther ==
  /\ sPc = "wait" /\ ~sTerminate /\ toSerial # <<>>
  /\ QGet(toSerial).rqst # "connect"
  /\ toSerial' = QRest(toSerial)
  /\ sItem' = QGet(toSerial)
  /\ idleDrop' = idleDrop \cup {QGet(toSerial).id}
  /\ UNCHANGED <<notBridge, uVars, sPc, sTerminate, sData, toUdp, devVars,
                 mPc, uHist, written, faulted, openFailed, discSeen>>

\* main loop: while not self.__terminate fails; the outer loop ends too
SMainExit ==
  /\ sPc = "main" /\ sTerminate
  /\ sPc' = "done"
  /\ UNCHANGED <<notBridge, uVars, sTerminate, sItem, sData, toSerial, toUdp,
                 devVars, mPc, uHist, sHist>>

\* main loop: a disconnect item -> self.__do_disconnect()
SMainDisconnect ==
  /\ sPc = "main" /\ ~sTerminate /\ toSerial # <<>>
  /\ QGet(toSerial).rqst = "disconnect"
  /\ toSerial' = QRest(toSerial)
  /\ sItem' = QGet(toSerial)
  /\ discSeen' = discSeen + 1
  /\ IF DoDisconnectCallable
       THEN \* self.__ser.close(); return True -> break to the outer loop
            /\ devOpen' = FALSE
            /\ devCloses' = devCloses + 1
            /\ sPc' = "wait"
       ELSE \* TypeError, caught by nothing: the thread ends
            /\ UNCHANGED <<devOpen, devCloses>>
            /\ sPc' = "crashed"
  /\ UNCHANGED <<notBridge, uVars, sTerminate, sData, toUdp, devOut,
                 devReply, mPc, uHist, idleDrop, written, faulted,
                 openFailed>>

\* main loop: a data item -> __write_data(item["data"])
\*   n bytes accepted: True iff n = len(data), then __read_data starts;
\*   fewer: print, continue.
SMainData ==
  /\ sPc = "main" /\ ~sTerminate /\ toSerial # <<>>
  /\ QGet(toSerial).rqst = "data"
  /\ toSerial' = QRest(toSerial)
  /\ sItem' = QGet(toSerial)
  /\ written' = Append(written, QGet(toSerial).id)
  /\ \E n \in 0..Len(QGet(toSerial).data) :
       IF n = Len(QGet(toSerial).data)
         THEN /\ sPc' = "read"
              /\ \E rep \in Replies : devOut' = rep /\ devReply' = rep
              /\ UNCHANGED faulted
         ELSE /\ sPc' = "main"
              /\ faulted' = TRUE
              /\ UNCHANGED <<devOut, devReply>>
  /\ UNCHANGED <<notBridge, uVars, sTerminate, sData, toUdp, devOpen,
                 devCloses, mPc, uHist, idleDrop, openFailed, discSeen>>

\* main loop: a data item whose write times out.  __write_data catches
\* SerialTimeoutException, and its handler prints bytes_written, which the
\* failed assignment never bound: UnboundLocalError, caught by nothing, and
\* the thread ends.
SMainDataTimeout ==
  /\ sPc = "main" /\ ~sTerminate /\ toSerial # <<>>
  /\ QGet(toSerial).rqst = "data"
  /\ toSerial' = QRest(toSerial)
  /\ sItem' = QGet(toSerial)
  /\ written' = Append(written, QGet(toSerial).id)
  /\ faulted' = TRUE
  /\ sPc' = "crashed"
  /\ UNCHANGED <<notBridge, uVars, sTerminate, sData, toUdp, devVars, mPc,
                 uHist, idleDrop, openFailed, discSeen>>

\* main loop: a data item whose write raises a SerialException other than
\* the timeout: no handler, the thread ends.
SMainDataRaise ==
  /\ sPc = "main" /\ ~sTerminate /\ toSerial # <<>>
  /\ QGet(toSerial).rqst = "data"
  /\ toSerial' = QRest(toSerial)
  /\ sItem' = QGet(toSerial)
  /\ written' = Append(written, QGet(toSerial).id)
  /\ faulted' = TRUE
  /\ sPc' = "crashed"
  /\ UNCHANGED <<notBridge, uVars, sTerminate, sData, toUdp, devVars, mPc,
                 uHist, idleDrop, openFailed, discSeen>>

\* main loop: an item that is neither disconnect nor data -> next iteration
SMainOther ==
  /\ sPc = "main" /\ ~sTerminate /\ toSerial # <<>>
  /\ QGet(toSerial).rqst \notin {"disconnect", "data"}
  /\ toSerial' = QRest(toSerial)
  /\ sItem' = QGet(toSerial)
  /\ UNCHANGED <<notBridge, uVars, sPc, sTerminate, sData, toUdp, devVars,
                 mPc, uHist, sHist>>

\* (mutant of AfterRead: what __read_data returned is dispatched without the
\* test of its length)
AfterReadAlways(data) ==
  /\ sData' = data
  /\ sPc' = "dispatch"

\* __read_data returned data: "if len(data) > 0: dispatch", else continue
AfterRead(data) ==
  /\ sData' = (IF Len(data) > 0 THEN data ELSE <<>>)
  /\ sPc' = (IF Len(data) > 0 THEN "dispatch" ELSE "main")

\* __read_data: self.__ser.read(1) returns one byte
SReadByte ==
  /\ sPc = "read" /\ devOut # <<>>
  /\ sData' = Append(sData, <<Head(devOut)>>)
  /\ devOut' = Tail(devOut)
  /\ UNCHANGED <<notBridge, uVars, sPc, sTerminate, sItem, toSerial, toUdp,
                 devOpen, devCloses, devReply, mPc, uHist, sHist>>

\* __read_data: read(1) times out and returns b'': appended, break, and the
\* list without its last element is returned
SReadEmpty ==
  /\ sPc = "read" /\ devOut = <<>>
  /\ AfterRead(StripLast(Append(sData, <<>>)))
  /\ UNCHANGED <<notBridge, uVars, sTerminate, sItem, toSerial, toUdp,
                 devVars, mPc, uHist, sHist>>

\* __read_data: read(1) raises SerialTimeoutException: break without an
\* append, and the list without its last element is returned
SReadTimeoutExc ==
  /\ sPc = "read" /\ devOut = <<>>
  /\ AfterRead(StripLast(sData))
  /\ UNCHANGED <<notBridge, uVars, sTerminate, sItem, toSerial, toUdp,
                 devVars, mPc, uHist, sHist>>

\* __read_data: read(1) raises another SerialException: no handler
SReadRaise ==
  /\ sPc = "read"
  /\ sPc' = "crashed"
  /\ faulted' = TRUE
  /\ UNCHANGED <<notBridge, uVars, sTerminate, sItem, sData, toSerial, toUdp,
                 devVars, mPc, uHist, idleDrop, written, openFailed,
                 discSeen>>

\* __dispatch_data: writer_q.put(data, timeout=0.1)
SDispatch ==
  /\ sPc = "dispatch" /\ ~QFull(toUdp)
  /\ toUdp' = QPut(toUdp, [data |-> sData, for |-> sItem.id])
  /\ sData' = <<>>
  /\ sPc' = "main"
  /\ UNCHANGED <<notBridge, uVars, sTerminate, sItem, toSerial, devVars, mPc,
                 uHist, sHist>>

\* __dispatch_data: put raises queue.Full -> print, return False
SDispatchFull ==
  /\ sPc = "dispatch" /\ QFull(toUdp)
  /\ sData' = <<>>
  /\ sPc' = "main"
  /\ UNCHANGED <<notBridge, uVars, sTerminate, sItem, toSerial, toUdp,
                 devVars, mPc, uHist, sHist>>

SerialThrd ==
  \/ SWaitExit \/ SWaitConnect \/ SWaitOther
  \/ SMainExit \/ SMainDisconnect \/ SMainData \/ SMainDataTimeout
  \/ SMainDataRaise \/ SMainOther
  \/ SReadByte \/ SReadEmpty \/ SReadTimeoutExc \/ SReadRaise
  \/ SDispatch \/ SDispatchFull

\* ======================================================= SerialServer.main
\* KeyboardInterrupt ends the sleep loop; self.__udp_thread.terminate()
MInterrupt ==
  /\ mPc = "running"
  /\ uTerminate' = TRUE
  /\ mPc' = "join_udp"
  /\ UNCHANGED <<notBridge, uPc, uItem, uAddr, sVars, toSerial, toUdp, devVars, uHist, sHist>>

\* self.__udp_thread.join() returns; self.__serial_thread.terminate()
MJoinUdp ==
  /\ mPc = "join_udp" /\ uPc \in {"done", "crashed"}
  /\ sTerminate' = TRUE
  /\ mPc' = "join_serial"
  /\ UNCHANGED <<notBridge, uVars, sPc, sItem, sData, toSerial, toUdp,
                 devVars, uHist, sHist>>

\* self.__serial_thread.join() returns
MJoinSerial ==
  /\ mPc = "join_serial" /\ sPc \in {"done", "crashed"}
  /\ mPc' = "exit"
  /\ UNCHANGED <<notBridge, uVars, sVars, toSerial, toUdp, devVars, uHist, sHist>>

Main == MInterrupt \/ MJoinUdp \/ MJoinSerial

Next == UDPThrd \/ SerialThrd \/ Main

\* The Bridge of ss_server.py.
Spec == Init /\ [][Next]_vars

\* ===================================================== serial_server.py
rThreads == <<rdPc, wrPc, rdTerminate, wrTerminate>>
rIoHist == <<rRead, rSent, rArrived, rWrote, rIoOnClosed>>
rHist == <<rIoHist, rCtl>>
Exited(pc) == pc \in {"done", "crashed"}

\* The control datagrams main can receive.
ControlRqsts == {"connect", "disconnect", "data"}

\* main, first loop: recvfrom returns a connect whose port opens;
\* both threads are constructed and started
RMConnect ==
  /\ rmPc = "wait_connect"
  /\ rDev' = "open"
  /\ rdPc' = "loop" /\ wrPc' = "loop"
  /\ rmPc' = "running"
  /\ rCtl' = Append(rCtl, "connect")
  /\ UNCHANGED <<notRelay, rdTerminate, wrTerminate, rIoHist>>

\* main, first loop: a connect whose port does not open, a request that is
\* no connect ("Expected connect, got"), or no request at all (pickle.loads
\* raises, KeyboardInterrupt): main ends
RMNoSession ==
  /\ rmPc = "wait_connect"
  /\ \/ \E k \in ControlRqsts : rCtl' = Append(rCtl, k)
     \/ rCtl' = rCtl
  /\ rmPc' = "exit"
  /\ UNCHANGED <<notRelay, rThreads, rDev, rIoHist>>

\* main, second loop: recvfrom returns a request; "disconnect" closes the
\* port (self.__ser.close()), any other kind is only printed
RMRequest ==
  /\ rmPc = "running"
  /\ \E k \in ControlRqsts :
       /\ rDev' = (IF k = "disconnect" THEN "closed" ELSE rDev)
       /\ rCtl' = Append(rCtl, k)
  /\ rmPc' = "term_reader"
  /\ UNCHANGED <<notRelay, rThreads, rIoHist>>

\* main, second loop: KeyboardInterrupt (return 0), or pickle.loads raises:
\* main ends, neither thread is terminated, the port stays open
RMAbandon ==
  /\ rmPc = "running"
  /\ rmPc' = "exit"
  /\ UNCHANGED <<notRelay, rThreads, rDev, rHist>>

\* reader_thread.terminate()
RMTermReader ==
  /\ rmPc = "term_reader"
  /\ rdTerminate' = TRUE
  /\ rmPc' = "join_reader"
  /\ UNCHANGED <<notRelay, rdPc, wrPc, wrTerminate, rDev, rHist>>

\* reader_thread.join() returns; writer_thread.terminate()
RMJoinReader ==
  /\ rmPc = "join_reader" /\ Exited(rdPc)
  /\ wrTerminate' = TRUE
  /\ rmPc' = "join_writer"
  /\ UNCHANGED <<notRelay, rdPc, wrPc, rdTerminate, rDev, rHist>>

\* writer_thread.join() returns; return 0
RMJoinWriter ==
  /\ rmPc = "join_writer" /\ Exited(wrPc)
  /\ rmPc' = "exit"
  /\ UNCHANGED <<notRelay, rThreads, rDev, rHist>>

\* ReaderThrd.run: while not self.__terminate fails
RdExit ==
  /\ rdPc = "loop" /\ rdTerminate
  /\ rdPc' = "done"
  /\ UNCHANGED <<notRelay, rmPc, wrPc, rdTerminate, wrTerminate, rDev, rHist>>

\* ReaderThrd.__process: read(1) returns a byte, sendto sends it
\* (a socket.timeout of sendto is printed and the byte is not sent)
RdByte ==
  /\ rdPc = "loop" /\ ~rdTerminate /\ rDev = "open"
  /\ Len(rRead) < MaxRelay
  /\ \E b \in Byte :
       /\ rRead' = Append(rRead, b)
       /\ \/ rSent' = Append(rSent, b)
          \/ rSent' = rSent
  /\ UNCHANGED <<notRelay, rmPc, rThreads, rDev, rArrived, rWrote, rIoOnClosed,
                 rCtl>>

\* ReaderThrd.__process: read(1) raises SerialException (a device fault, or
\* the port is closed): self.__terminate = True
RdFault ==
  /\ rdPc = "loop" /\ ~rdTerminate
  /\ rdTerminate' = TRUE
  /\ rIoOnClosed' = (rIoOnClosed \/ rDev = "closed")
  /\ UNCHANGED <<notRelay, rmPc, rdPc, wrPc, wrTerminate, rDev, rRead,
                 rSent, rArrived, rWrote, rCtl>>

\* WriterThrd.run: while not self.__terminate fails
WrExit ==
  /\ wrPc = "loop" /\ wrTerminate
  /\ wrPc' = "done"
  /\ UNCHANGED <<notRelay, rmPc, rdPc, rdTerminate, wrTerminate, rDev, rHist>>

\* WriterThrd.__process: recvfrom returns a datagram, write(data) writes it
\* (a SerialTimeoutException of write is passed over)
WrDatagram ==
  /\ wrPc = "loop" /\ ~wrTerminate /\ rDev = "open"
  /\ Len(rArrived) < MaxRelay
  /\ \E b \in Byte :
       /\ rArrived' = Append(rArrived, b)
       /\ \/ rWrote' = Append(rWrote, b)
          \/ rWrote' = rWrote
  /\ UNCHANGED <<notRelay, rmPc, rThreads, rDev, rRead, rSent, rIoOnClosed,
                 rCtl>>

\* WriterThrd.__process: recvfrom returns a datagram and write(data) raises a
\* SerialException other than the timeout (a device fault, or the port is
\* closed): no handler, the thread ends
WrFault ==
  /\ wrPc = "loop" /\ ~wrTerminate
  /\ Len(rArrived) < MaxRelay
  /\ \E b \in Byte : rArrived' = Append(rArrived, b)
  /\ wrPc' = "crashed"
  /\ rIoOnClosed' = (rIoOnClosed \/ rDev = "closed")
  /\ UNCHANGED <<notRelay, rmPc, rdPc, rdTerminate, wrTerminate, rDev,
                 rRead, rSent, rWrote, rCtl>>

RelayMain ==
  \/ RMConnect \/ RMNoSession \/ RMRequest \/ RMAbandon
  \/ RMTermReader \/ RMJoinReader \/ RMJoinWriter
ReaderThrd == RdExit \/ RdByte \/ RdFault
WriterThrd == WrExit \/ WrDatagram \/ WrFault

RelayNext == RelayMain \/ ReaderThrd \/ WriterThrd

\* The byte relay of serial_server.py.
SpecRelay == Init /\ [][RelayNext]_vars

\* ========================================================== ss_client.py
\* The list UDPThrd.__process puts on to_serial: l = [0x01,0x42,0x34,0x56,0x01]
HardCoded == <<1, 66, 52, 86, 1>>

\* What the Bridge answers to a data datagram: [{"resp": True, "data":
\* [item]}] with the frame it read, or [{"resp": False, "data": []}].
BridgeResponses ==
  {[resp |-> TRUE, data |-> <<<<<<1>>, <<2>>>>>>],
   [resp |-> FALSE, data |-> <<>>]}

cuVars == <<cuPc, cuTerminate>>
csVars == <<csPc, csTerminate, csData>>
cQueues == <<cToSerial, cToUdp>>
cHist == <<cRead, cNet, cPut, cWrote, cFrameHist>>

\* UDPThrd.run: sendto of the connect datagram
CUConnect ==
  /\ cuPc = "connect"
  /\ cNet' = Append(cNet, [rqst |-> "connect", data |-> <<>>])
  /\ cuPc' = "loop"
  /\ UNCHANGED <<notCtl, cuTerminate, csVars, cQueues, cDev, cmPc, cSockIn,
                 cRead, cPut, cWrote, cFrameHist>>

\* UDPThrd.run: sendto of the connect datagram raises socket.timeout:
\* print, return
CUConnectTimeout ==
  /\ cuPc = "connect"
  /\ cuPc' = "done"
  /\ UNCHANGED <<notCtl, cuTerminate, csVars, cQueues, cDev, cmPc, cSockIn,
                 cHist>>

\* UDPThrd.run: while not self.__terminate fails; sendto of the disconnect
\* datagram (a socket.timeout of it is printed)
CUBye ==
  /\ cuPc = "loop" /\ cuTerminate
  /\ \/ cNet' = Append(cNet, [rqst |-> "disconnect", data |-> <<>>])
     \/ cNet' = cNet
  /\ cuPc' = "done"
  /\ UNCHANGED <<notCtl, cuTerminate, csVars, cQueues, cDev, cmPc, cSockIn,
                 cRead, cPut, cWrote, cFrameHist>>

\* (mutant of CUGet: every frame taken from the queue is announced by a new
\* connect datagram instead of being sent as data)
CUGetReconnect ==
  /\ cuPc = "loop" /\ ~cuTerminate /\ cToUdp # <<>>
  /\ cToUdp' = QRest(cToUdp)
  /\ \/ /\ cNet' = Append(cNet, [rqst |-> "connect", data |-> <<>>])
        /\ \E r \in BridgeResponses : cSockIn' = Append(cSockIn, r)
        /\ cuPc' = "put"
     \/ UNCHANGED <<cNet, cSockIn, cuPc>>
  /\ UNCHANGED <<notCtl, cuTerminate, csVars, cToSerial, cDev, cmPc, cRead,
                 cPut, cWrote, cFrameHist>>

\* UDPThrd.__process: reader_q.get(timeout=0.1) returns a frame; sendto of
\* the data datagram, which the Bridge answers (a socket.timeout of sendto
\* is printed and __process returns)
CUGet ==
  /\ cuPc = "loop" /\ ~cuTerminate /\ cToUdp # <<>>
  /\ cToUdp' = QRest(cToUdp)
  /\ \/ /\ cNet' = Append(cNet, [rqst |-> "data", data |-> QGet(cToUdp)])
        /\ \E r \in BridgeResponses : cSockIn' = Append(cSockIn, r)
        /\ cuPc' = "put"
     \/ UNCHANGED <<cNet, cSockIn, cuPc>>
  /\ UNCHANGED <<notCtl, cuTerminate, csVars, cToSerial, cDev, cmPc, cRead,
                 cPut, cWrote, cFrameHist>>

\* The frame __process has taken from to_udp and is working on: to_udp is a
\* FIFO queue, so it is the frame put there as number (puts - length).
FrameInHand == cDisp[Len(cDisp) - Len(cToUdp)]

\* UDPThrd.__process: self.__writer_q.put([l]), a put without timeout, which
\* returns once the queue has room; then "return" (the recvfrom and the put
\* of the Response's data after it are never reached)
CUPut ==
  /\ cuPc = "put" /\ ~QFull(cToSerial)
  /\ cToSerial' = QPut(cToSerial, <<HardCoded>>)
  /\ cPut' = Append(cPut, [item |-> <<HardCoded>>, req |-> Len(cSockIn),
                          frame |-> FrameInHand])
  /\ cuPc' = "loop"
  /\ UNCHANGED <<notCtl, cuTerminate, csVars, cToUdp, cDev, cmPc, cSockIn,
                 cRead, cNet, cWrote, cFrameHist>>

\* UDPThrd: sendto raises a socket error other than timeout: no handler
CUSendRaise ==
  /\ \/ cuPc = "connect"
     \/ cuPc = "loop" /\ cuTerminate
     \/ cuPc = "loop" /\ ~cuTerminate /\ cToUdp # <<>>
  /\ cToUdp' = (IF cuPc = "loop" /\ ~cuTerminate THEN QRest(cToUdp)
                ELSE cToUdp)
  /\ cuPc' = "crashed"
  /\ UNCHANGED <<notCtl, cuTerminate, csVars, cToSerial, cDev, cmPc, cSockIn,
                 cHist>>

CtlUDPThrd ==
  \/ CUConnect \/ CUConnectTimeout \/ CUBye \/ CUGet \/ CUPut \/ CUSendRaise

\* SerialThrd.run: self.__do_connect(data); the result is not looked at.
\* serial.Serial(...) opens the port, or raises SerialException and
\* self.__ser stays None.
CSOpen ==
  /\ csPc = "open"
  /\ \E ok \in BOOLEAN : cDev' = (IF ok THEN "open" ELSE "none")
  /\ csPc' = "read"
  /\ UNCHANGED <<notCtl, cuVars, csTerminate, csData, cQueues, cmPc, cSockIn,
                 cHist>>

\* __read_data: "if self.__terminate: return b''"; run: len(b'') is 0 and
\* "while not self.__terminate" fails; self.__do_disconnect() closes the
\* port, or raises AttributeError when self.__ser is None
CSTerminated ==
  /\ csPc = "read" /\ csTerminate
  /\ csData' = <<>>
  /\ cDev' = (IF cDev = "open" THEN "closed" ELSE cDev)
  /\ csPc' = (IF cDev = "open" THEN "done" ELSE "crashed")
  /\ UNCHANGED <<notCtl, cuVars, csTerminate, cQueues, cmPc, cSockIn, cHist>>

\* run: "if len(data) > 0:" after __read_data returned data
CAfterRead(data) ==
  /\ csData' = (IF Len(data) > 0 THEN data ELSE <<>>)
  /\ csPc' = (IF Len(data) > 0 THEN "dispatch" ELSE "read")

\* __read_data: self.__ser.read(1) returns one byte
CSReadByte ==
  /\ csPc = "read" /\ ~csTerminate /\ cDev = "open"
  /\ Len(cRead) < MaxCtlBytes
  /\ \E b \in Byte :
       /\ csData' = Append(csData, <<b>>)
       /\ cRead' = Append(cRead, b)
  /\ UNCHANGED <<notCtl, cuVars, csPc, csTerminate, cQueues, cDev, cmPc,
                 cSockIn, cNet, cPut, cWrote, cFrameHist>>

\* __read_data: read(1) times out and returns b'': with bytes before it the
\* list without its last element is returned, else the list is cleared and
\* the loop goes on
CSReadEmpty ==
  /\ csPc = "read" /\ ~csTerminate /\ cDev = "open"
  /\ LET data == Append(csData, <<>>) IN
       IF Len(data) > 1
         THEN CAfterRead(SubSeq(data, 1, Len(data) - 1))
         ELSE csData' = <<>> /\ csPc' = "read"
  /\ UNCHANGED <<notCtl, cuVars, csTerminate, cQueues, cDev, cmPc, cSockIn,
                 cHist>>

\* __read_data: read(1) raises SerialTimeoutException: break, return data
CSReadTimeoutExc ==
  /\ csPc = "read" /\ ~csTerminate /\ cDev = "open"
  /\ CAfterRead(csData)
  /\ UNCHANGED <<notCtl, cuVars, csTerminate, cQueues, cDev, cmPc, cSockIn,
                 cHist>>

\* __read_data: read(1) raises another SerialException, or self.__ser is
\* None (AttributeError): no handler
CSReadRaise ==
  /\ csPc = "read" /\ ~csTerminate
  /\ csPc' = "crashed"
  /\ UNCHANGED <<notCtl, cuVars, csTerminate, csData, cQueues, cDev, cmPc,
                 cSockIn, cHist>>

\* __dispatch_data: writer_q.put(data, timeout=0.1)
CSDispatch ==
  /\ csPc = "dispatch" /\ ~QFull(cToUdp)
  /\ cToUdp' = QPut(cToUdp, csData)
  /\ csData' = <<>>
  /\ csPc' = "response"
  /\ csFrame' = csFrame + 1
  /\ cDisp' = Append(cDisp, csFrame + 1)
  /\ UNCHANGED <<notCtl, cuVars, csTerminate, cToSerial, cDev, cmPc, cSockIn,
                 cRead, cNet, cPut, cWrote, cAns>>

\* __dispatch_data: put raises queue.Full -> print, return False (run does
\* not look at the result)
CSDispatchFull ==
  /\ csPc = "dispatch" /\ QFull(cToUdp)
  /\ csData' = <<>>
  /\ csPc' = "response"
  /\ csFrame' = csFrame + 1
  /\ UNCHANGED <<notCtl, cuVars, csTerminate, cQueues, cDev, cmPc, cSockIn,
                 cRead, cNet, cPut, cWrote, cDisp, cAns>>

\* __response_data: reader_q.get(timeout=0.1) returns an item;
\* __write_data(self.__resp_data[0]) writes its elements one by one
CSRespWrite ==
  /\ csPc = "response" /\ cToSerial # <<>>
  /\ cToSerial' = QRest(cToSerial)
  /\ cWrote' = Append(cWrote, QGet(cToSerial)[1])
  /\ cAns' = Append(cAns, [for |-> cPut[Len(cPut) - Len(cToSerial) + 1].frame,
                           after |-> csFrame])
  /\ csPc' = "read"
  /\ UNCHANGED <<notCtl, cuVars, csTerminate, csData, cToUdp, cDev, cmPc,
                 cSockIn, cRead, cNet, cPut, csFrame, cDisp>>

\* __response_data returns an item and a write raises: the handler of
\* SerialTimeoutException prints bytes_written, a name bound nowhere
\* (NameError); another SerialException has no handler
CSRespWriteRaise ==
  /\ csPc = "response" /\ cToSerial # <<>>
  /\ cToSerial' = QRest(cToSerial)
  /\ csPc' = "crashed"
  /\ UNCHANGED <<notCtl, cuVars, csTerminate, csData, cToUdp, cDev, cmPc,
                 cSockIn, cHist>>

\* __response_data: get raises queue.Empty -> return False
CSRespEmpty ==
  /\ csPc = "response" /\ cToSerial = <<>>
  /\ csPc' = "read"
  /\ UNCHANGED <<notCtl, cuVars, csTerminate, csData, cQueues, cDev, cmPc,
                 cSockIn, cHist>>

\* The steps of the serial thread that wait for nothing outside the program.
CtlSerialInternal ==
  \/ CSOpen \/ CSTerminated \/ CSDispatch \/ CSDispatchFull
  \/ CSRespWrite \/ CSRespEmpty

CtlSerialThrd ==
  \/ CtlSerialInternal
  \/ CSReadByte \/ CSReadEmpty \/ CSReadTimeoutExc \/ CSReadRaise
  \/ CSRespWriteRaise

\* SerialClient.main: KeyboardInterrupt; self.__udp_thread.terminate()
CMInterrupt ==
  /\ cmPc = "running"
  /\ cuTerminate' = TRUE
  /\ cmPc' = "join_udp"
  /\ UNCHANGED <<notCtl, cuPc, csVars, cQueues, cDev, cSockIn, cHist>>

\* self.__udp_thread.join() returns; self.__serial_thread.terminate()
CMJoinUdp ==
  /\ cmPc = "join_udp" /\ Exited(cuPc)
  /\ csTerminate' = TRUE
  /\ cmPc' = "join_serial"
  /\ UNCHANGED <<notCtl, cuVars, csPc, csData, cQueues, cDev, cSockIn, cHist>>

\* self.__serial_thread.join() returns
CMJoinSerial ==
  /\ cmPc = "join_serial" /\ Exited(csPc)
  /\ cmPc' = "exit"
  /\ UNCHANGED <<notCtl, cuVars, csVars, cQueues, cDev, cSockIn, cHist>>

CtlMain == CMInterrupt \/ CMJoinUdp \/ CMJoinSerial

CtlNext == CtlUDPThrd \/ CtlSerialThrd \/ CtlMain

\* The Controller of ss_client.py.
SpecCtl == Init /\ [][CtlNext]_vars

\* The Controller with its threads scheduled: a thread that can take a step
\* of its own does so, and join() returns once the thread has ended.  What
\* the local device does (a byte, silence, a fault) and when the user
\* interrupts are not constrained.
SpecCtlFair ==
  /\ Init /\ [][CtlNext]_vars
  /\ WF_vars(CtlUDPThrd) /\ WF_vars(CtlSerialInternal)
  /\ WF_vars(CMJoinUdp \/ CMJoinSerial)

\* ===================================================== serial_client.py
lThreads == <<lrdPc, lwrPc, lrdTerminate, lwrTerminate>>
lHist == <<lRead, lNet, lArrived, lWrote>>

\* A datagram the local client sends: a control request to the relay's
\* control port, or one byte read from the local device to its data port.
ControlDatagram(k) == [rqst |-> k, data |-> 0]
ByteDatagram(b) == [rqst |-> "byte", data |-> b]

\* main: serial.conf is missing or incomplete: return 0 before any datagram
LMNoConfig ==
  /\ lmPc = "start"
  /\ lmPc' = "exit"
  /\ UNCHANGED <<notCli, lThreads, lDev, lHist>>

\* main: sock.sendto of the connect request
LMConnect ==
  /\ lmPc = "start"
  /\ lNet' = Append(lNet, ControlDatagram("connect"))
  /\ lmPc' = "open"
  /\ UNCHANGED <<notCli, lThreads, lDev, lRead, lArrived, lWrote>>

\* main: sendto of the connect request raises socket.timeout: print, return 0
LMConnectTimeout ==
  /\ lmPc = "start"
  /\ lmPc' = "exit"
  /\ UNCHANGED <<notCli, lThreads, lDev, lHist>>

\* main: __do_connect opens the local port; both threads are constructed
\* and started
LMOpen ==
  /\ lmPc = "open"
  /\ lDev' = "open"
  /\ lrdPc' = "loop" /\ lwrPc' = "loop"
  /\ lmPc' = "running"
  /\ UNCHANGED <<notCli, lrdTerminate, lwrTerminate, lHist>>

\* main: __do_connect returns False (serial.Serial raised SerialException):
\* print, return 0
LMOpenFail ==
  /\ lmPc = "open"
  /\ lmPc' = "exit"
  /\ UNCHANGED <<notCli, lThreads, lDev, lHist>>

\* main: KeyboardInterrupt ends the sleep loop; sock.sendto of the
\* disconnect request (a socket.timeout of it is printed)
LMDisconnect ==
  /\ lmPc = "running"
  /\ \/ lNet' = Append(lNet, ControlDatagram("disconnect"))
     \/ lNet' = lNet
  /\ lmPc' = "term_reader"
  /\ UNCHANGED <<notCli, lThreads, lDev, lRead, lArrived, lWrote>>

\* reader_thread.terminate()
LMTermReader ==
  /\ lmPc = "term_reader"
  /\ lrdTerminate' = TRUE
  /\ lmPc' = "join_reader"
  /\ UNCHANGED <<notCli, lrdPc, lwrPc, lwrTerminate, lDev, lHist>>

\* reader_thread.join() returns; writer_thread.terminate()
LMJoinReader ==
  /\ lmPc = "join_reader" /\ Exited(lrdPc)
  /\ lwrTerminate' = TRUE
  /\ lmPc' = "join_writer"
  /\ UNCHANGED <<notCli, lrdPc, lwrPc, lrdTerminate, lDev, lHist>>

\* writer_thread.join() returns; return 0
LMJoinWriter ==
  /\ lmPc = "join_writer" /\ Exited(lwrPc)
  /\ lmPc' = "exit"
  /\ UNCHANGED <<notCli, lThreads, lDev, lHist>>

\* ReaderThrd.run: while not self.__terminate fails
LRdExit ==
  /\ lrdPc = "loop" /\ lrdTerminate
  /\ lrdPc' = "done"
  /\ UNCHANGED <<notCli, lmPc, lwrPc, lrdTerminate, lwrTerminate, lDev,
                 lHist>>

\* (mutant of LRdSend: the byte is sent in two datagrams)
LRdSendTwice(b) ==
  lNet' = Append(Append(lNet, ByteDatagram(b)), ByteDatagram(b))

\* ReaderThrd.__process: self.__sock.sendto(data, self.__addr) sends the byte
LRdSend(b) == lNet' = Append(lNet, ByteDatagram(b))

\* ReaderThrd.__process: read(1) returns a byte, sendto sends it, or raises
\* socket.timeout, which is printed, and the byte is not sent
LRdByte ==
  /\ lrdPc = "loop" /\ ~lrdTerminate /\ lDev = "open"
  /\ Len(lRead) < MaxRelay
  /\ \E b \in Byte :
       /\ lRead' = Append(lRead, b)
       /\ \/ LRdSend(b)
          \/ lNet' = lNet
  /\ UNCHANGED <<notCli, lmPc, lThreads, lDev, lArrived, lWrote>>

\* ReaderThrd.__process: read(1) raises a SerialException other than the
\* timeout: no handler, the thread ends
LRdFault ==
  /\ lrdPc = "loop" /\ ~lrdTerminate
  /\ lrdPc' = "crashed"
  /\ UNCHANGED <<notCli, lmPc, lwrPc, lrdTerminate, lwrTerminate, lDev,
                 lHist>>

\* WriterThrd.run: while not self.__terminate fails
LWrExit ==
  /\ lwrPc = "loop" /\ lwrTerminate
  /\ lwrPc' = "done"
  /\ UNCHANGED <<notCli, lmPc, lrdPc, lrdTerminate, lwrTerminate, lDev,
                 lHist>>

\* WriterThrd.__process: recvfrom returns a datagram, write(data) writes it
\* (a SerialTimeoutException of write is passed over)
LWrDatagram ==
  /\ lwrPc = "loop" /\ ~lwrTerminate /\ lDev = "open"
  /\ Len(lArrived) < MaxRelay
  /\ \E b \in Byte :
       /\ lArrived' = Append(lArrived, b)
       /\ \/ lWrote' = Append(lWrote, b)
          \/ lWrote' = lWrote
  /\ UNCHANGED <<notCli, lmPc, lThreads, lDev, lRead, lNet>>

\* WriterThrd.__process: recvfrom returns a datagram and write(data) raises a
\* SerialException other than the timeout: no handler, the thread ends
LWrFault ==
  /\ lwrPc = "loop" /\ ~lwrTerminate
  /\ Len(lArrived) < MaxRelay
  /\ \E b \in Byte : lArrived' = Append(lArrived, b)
  /\ lwrPc' = "crashed"
  /\ UNCHANGED <<notCli, lmPc, lrdPc, lrdTerminate, lwrTerminate, lDev,
                 lRead, lNet, lWrote>>

CliMain ==
  \/ LMNoConfig \/ LMConnect \/ LMConnectTimeout \/ LMOpen \/ LMOpenFail
  \/ LMDisconnect \/ LMTermReader \/ LMJoinReader \/ LMJoinWriter
CliReaderThrd == LRdExit \/ LRdByte \/ LRdFault
CliWriterThrd == LWrExit \/ LWrDatagram \/ LWrFault

CliNext == CliMain \/ CliReaderThrd \/ CliWriterThrd

\* The local client of serial_client.py.
SpecCli == Init /\ [][CliNext]_vars

\* Both ends of the byte relay: a run of serial_server.py or a run of
\* serial_client.py.
RelayEndsNext ==
  \/ CliInit /\ RelayNext
  \/ RelayInit /\ CliNext
SpecRelayEnds == Init /\ [][RelayEndsNext]_vars

\* ==================================================== two Controllers
\* The requests of a session that stays open: Connects that open the port,
\* and Data Requests.
SessionRequests ==
  {r \in Requests : r.rqst = "data" \/ (r.rqst = "connect" /\ r.cfg = "ok")}

\* run with two Controllers on the network: each datagram comes from either
URecvTwo == URecvOf(SessionRequests, TwoControllers)

\* The Bridge while it runs: no termination, no fault of socket or device.
AddrNext ==
  \/ URecvTwo \/ UPut \/ UPutFull \/ UGetItem \/ UGetEmpty
  \/ SWaitConnect \/ SWaitOther \/ SMainData \/ SMainOther
  \/ SReadByte \/ SReadEmpty \/ SDispatch \/ SDispatchFull

\* The Bridge of ss_server.py with datagrams from two source addresses.
SpecAddr == Init /\ [][AddrNext]_vars

\* ==================================================== __read_data alone
\* The byte sequences a device can deliver to one __read_data.
ByteSeqs == UNION {[1..n -> Byte] : n \in 0..MaxFrame}

ConnectRq ==
  [id |-> 1, src |-> "A", rqst |-> "connect", cfg |-> "ok", data |-> <<>>]
DataRq ==
  [id |-> 2, src |-> "A", rqst |-> "data", cfg |-> "none", data |-> <<1, 2>>]

\* The Bridge with a session open, the Connect answered, a Data Request
\* written to the device and __read_data about to start, the device holding
\* the byte sequence B that it delivers one byte per read.
ReadInit ==
  /\ uPc = "get" /\ uTerminate = FALSE /\ uItem = DataRq /\ uAddr = "A"
  /\ sPc = "read" /\ sTerminate = FALSE /\ sItem = DataRq /\ sData = <<>>
  /\ toSerial = <<>> /\ toUdp = <<>>
  /\ devOpen = TRUE /\ devCloses = 0
  /\ \E B \in ByteSeqs : devOut = B /\ devReply = B
  /\ mPc = "running"
  /\ rcvd = <<ConnectRq, DataRq>> /\ enq = <<1, 2>>
  /\ fullDrop = {} /\ idleDrop = {}
  /\ written = <<2>>
  /\ sent = <<[to |-> 1, addr |-> "A", resp |-> FALSE, data |-> <<>>,
               for |-> 0]>>
  /\ faulted = FALSE /\ openFailed = FALSE /\ discSeen = 0
  /\ RelayInit /\ CtlInit /\ CliInit

\* __read_data on a device that delivers its bytes and then one empty read,
\* the dispatch of what it returned, and the Response that carries it.
ReadNext ==
  \/ SReadByte \/ SReadEmpty \/ SDispatch
  \/ UGetItem \/ UGetEmpty

SpecRead == ReadInit /\ [][ReadNext]_vars

\* ============================================================ both peers
\* The Bridge and the Controller are two processes that share no state: a
\* run of either one, the other not started.
PeersNext ==
  \/ CtlInit /\ Next
  \/ BridgeInit /\ CtlNext

SpecPeers == Init /\ [][PeersNext]_vars

\* ================================================================ claims
Ids == 1..Len(rcvd)
IsData(id) == rcvd[id].rqst = "data"
\* The Responses sent for request id (indices into sent).
RespTo(id) == {i \in 1..Len(sent) : sent[i].to = id}
\* UDPThrd.__process has returned for request id.
Processed(id) == id \in Ids /\ uItem.id # id
Elems(seq) == {seq[i] : i \in 1..Len(seq)}
PosIn(seq, x) == CHOOSE i \in 1..Len(seq) : seq[i] = x
\* Requests put on to_serial and taken off it again by the serial thread.
Dequeued == Elems(enq) \ {toSerial[i].id : i \in 1..Len(toSerial)}

\* C1 (as amended): a Data Request is never answered twice; once __process
\* has returned for it, exactly one Response was sent if the request went on
\* the to-device queue and none if the queue was full.
C1_OneResponseUnlessFull ==
  \A id \in Ids : IsData(id) =>
    /\ Cardinality(RespTo(id)) <= 1
    /\ Processed(id) =>
         Cardinality(RespTo(id)) = (IF id \in fullDrop THEN 0 ELSE 1)

\* C1 as claimed: every Data Request the network thread has handled got
\* exactly one Response.
C1_ExactlyOneResponse ==
  \A id \in Ids : (IsData(id) /\ Processed(id)) => Cardinality(RespTo(id)) = 1

C1_Witness ==
  \E a, b \in Ids :
     /\ IsData(a) /\ Processed(a) /\ a \in fullDrop
     /\ IsData(b) /\ Processed(b) /\ Cardinality(RespTo(b)) = 1

\* C2 (as amended): the network thread takes up a further request only after
\* it sent the Response to the one before or dropped that one on a full
\* to-device queue; and whenever the device thread has dequeued a request,
\* the Response to every request enqueued before it has been sent.
C2_OneInFlightUnlessFull ==
  /\ \A id \in Ids : id < Len(rcvd) => (RespTo(id) # {} \/ id \in fullDrop)
  /\ \A id \in Dequeued : \A j \in Elems(enq) :
       PosIn(enq, j) < PosIn(enq, id) => RespTo(j) # {}

\* C2 as claimed: request N+1 is taken up only after the Response to N was
\* sent, and dequeued only after it.
C2_OneInFlight ==
  /\ \A id \in Ids : id < Len(rcvd) => RespTo(id) # {}
  /\ \A id \in Dequeued : \A j \in Elems(enq) :
       PosIn(enq, j) < PosIn(enq, id) => RespTo(j) # {}

C2_Witness ==
  /\ \E id \in Dequeued : \E j \in Elems(enq) :
       PosIn(enq, j) < PosIn(enq, id) /\ RespTo(j) # {}
  /\ \E id \in fullDrop : id < Len(rcvd)

\* C3 as claimed: a Response that carries a frame carries the frame read
\* from the device for the request it answers.
C3_FrameForItsRequest ==
  \A i \in 1..Len(sent) : sent[i].resp => sent[i].for = sent[i].to

\* C4 as claimed: the step that handles a Disconnect Request in the main
\* loop takes the device thread back to waiting for a Connect and executes
\* the close of the device handle once.
C4_DisconnectToIdle ==
  [][discSeen' # discSeen =>
       (sPc' = "wait" /\ ~devOpen' /\ devCloses' = devCloses + 1)]_vars

\* C6 as claimed: a device I/O fault while Active takes the Bridge out of
\* Active into Idle with the device handle released.
C6_FaultToIdle ==
  [][(~faulted /\ faulted') => (sPc' = "wait" /\ ~devOpen')]_vars

\* C7: the device thread writes Data Requests in the order of their enqueue,
\* each at most once, and skips none it dequeued in the main loop.
C7_WriteOrder ==
  /\ \A i \in 1..Len(written) :
       /\ written[i] \in Elems(enq) /\ IsData(written[i])
       /\ \A j \in 1..Len(written) :
            i < j => PosIn(enq, written[i]) < PosIn(enq, written[j])
  /\ \A id \in Dequeued \ idleDrop : IsData(id) => id \in Elems(written)

C7_Witness ==
  /\ Len(written) >= 2
  /\ \E id \in idleDrop : IsData(id)

\* C8 (as amended): a Data Request that the device thread dequeues while it
\* waits for a Connect is not written to the device, and the network thread
\* still sends exactly one Response for it.
C8_IdleDataNotWritten ==
  \A id \in idleDrop : IsData(id) =>
    /\ id \notin Elems(written)
    /\ Processed(id) => Cardinality(RespTo(id)) = 1

\* C8 as claimed: such a request is not written and gets no Response.
C8_IdleDataNoResponse ==
  \A id \in idleDrop : IsData(id) =>
    (id \notin Elems(written) /\ RespTo(id) = {})

C8_Witness ==
  \E id \in idleDrop :
     /\ IsData(id) /\ Processed(id) /\ ~devOpen
     /\ \E i \in RespTo(id) : ~sent[i].resp

\* C9 as claimed: after a failed open the device thread is back in the
\* wait-for-connect loop.
C9_OpenFailureToIdle ==
  [][(~openFailed /\ openFailed') => sPc' = "wait"]_vars

\* C10 as claimed: a session ended by a Disconnect Request leaves the device
\* thread running (waiting for a Connect, or relaying again), unless
\* termination was requested.
C10_NoTerminalState ==
  (discSeen > 0 /\ ~sTerminate) => sPc \in {"wait", "main", "read", "dispatch"}

\* C11 as claimed: every Disconnect Request the device thread dequeues, the
\* first of a row as well as the second, leaves the Bridge waiting for a
\* Connect, and one dequeued there already closes nothing.
C11_DisconnectIdempotent ==
  [][(sItem' # sItem /\ sItem'.rqst = "disconnect") =>
       (sPc' = "wait" /\ (sPc = "wait" => devCloses' = devCloses))]_vars

\* C12 as claimed: the step that receives an undecodable datagram leaves the
\* network thread at its receive loop, and the session, the device and the
\* queues as they were.
C12_MalformedDiscarded ==
  [][(Len(rcvd') > Len(rcvd) /\ rcvd'[Len(rcvd')].rqst = "garbage") =>
       (uPc' = "recv" /\ UNCHANGED <<sVars, devVars, toSerial, toUdp>>)]_vars

\* A control request of kind k is not the one main waits for at pc.
Unexpected(pc, k) ==
  \/ pc = "wait_connect" /\ k # "connect"
  \/ pc = "running" /\ k # "disconnect"

\* C13 as claimed (serial_server.py): the step in which main receives a
\* request of a kind it does not wait for leaves main where it was, and the
\* device handle and the relay threads as they were.
C13_UnexpectedDiscarded ==
  [][(Len(rCtl') > Len(rCtl) /\ Unexpected(rmPc, rCtl'[Len(rCtl')])) =>
       (rmPc' = rmPc /\ UNCHANGED <<rDev, rThreads>>)]_vars

\* C13, the Bridge of ss_server.py: a Connect dequeued by the main loop, and
\* a request other than a Connect dequeued by the wait loop, change nothing
\* but the queue they came from.
C13_BridgeDiscards ==
  [][(sItem' # sItem /\
        \/ sPc = "main" /\ sItem'.rqst = "connect"
        \/ sPc = "wait" /\ sItem'.rqst # "connect") =>
       UNCHANGED <<sPc, sTerminate, sData, devVars, uVars, toUdp, written>>]_vars

\* C14 as claimed: once terminate() was called on the device thread, a
\* read(1) of __read_data that returns a byte is the one blocking call after
\* which the thread looks at the flag: it does not go on to a further read.
C14_FlagSeenAfterOneCall ==
  [][(sTerminate /\ sPc = "read" /\ sData' # sData) => sPc' # "read"]_vars

\* C15 as claimed: once main has begun to terminate the Controller's threads,
\* both threads eventually have exited.
C15_ControllerTerminates ==
  (cmPc # "running") ~> (Exited(cuPc) /\ Exited(csPc))

\* C16 as claimed (Controller): a thread that stands at an enqueue on a full
\* queue has a step to take, the return from the put with the queue as it
\* was: it does not wait for another thread to make room.
C16_EnqueueOnFullReturns ==
  /\ (cuPc = "put" /\ QFull(cToSerial)) => ENABLED CtlUDPThrd
  /\ (csPc = "dispatch" /\ QFull(cToUdp)) => ENABLED CtlSerialThrd

\* A frame as the device threads build it: a non-empty list of read(1)
\* results, none of them the empty result of a timed-out read.
IsFrame(f) == Len(f) > 0 /\ \A i \in 1..Len(f) : f[i] # <<>>

\* C17: every item on the to-udp queue of the Bridge and of the Controller
\* is a non-empty frame, and so is every frame that left the queue in a
\* Response of the Bridge or a data datagram of the Controller; a read that
\* yields no byte enqueues nothing.
C17_NoEmptyFrameQueued ==
  /\ \A i \in 1..Len(toUdp) : IsFrame(toUdp[i].data)
  /\ \A i \in 1..Len(sent) : sent[i].resp => IsFrame(sent[i].data)
  /\ \A i \in 1..Len(cToUdp) : IsFrame(cToUdp[i])
  /\ \A i \in 1..Len(cNet) : cNet[i].rqst = "data" => IsFrame(cNet[i].data)

\* A frame is queued on the Bridge after an earlier write was answered by
\* silence, for which the network thread sent the no-data Response.
C17_Witness ==
  /\ toUdp # <<>>
  /\ \E id \in Elems(written) : \E i \in RespTo(id) : ~sent[i].resp

\* The bytes of B, each as the one-byte result of a read(1).
OneByteEach(B) == [i \in 1..Len(B) |-> <<B[i]>>]

\* The frames that left __read_data for the queue, or went on to a Response.
FramesOut ==
  [i \in 1..Len(toUdp) |-> toUdp[i].data]
    \o SelectSeq([i \in 1..Len(sent) |-> sent[i].data], LAMBDA d : d # <<>>)
    \o (IF sPc = "dispatch" THEN <<sData>> ELSE <<>>)

\* C18: on a device that delivers the bytes of B one per read and then one
\* empty read, __read_data returns the bytes of B in order: while it reads,
\* what it has read and what is left to deliver make up B; once it has
\* returned, a non-empty B is out as exactly one frame, equal to B.
C18_ReadFrameReturnsB ==
  /\ sPc = "read" => sData \o OneByteEach(devOut) = OneByteEach(devReply)
  /\ \A i \in 1..Len(FramesOut) : FramesOut[i] = OneByteEach(devReply)
  /\ (sPc = "main" /\ devReply # <<>> /\ uPc # "crashed") =>
       Len(FramesOut) = 1
  /\ devReply = <<>> => FramesOut = <<>>

C18_Witness ==
  /\ sPc = "dispatch" /\ Len(devReply) = MaxFrame
  /\ \E i, j \in 1..Len(devReply) : devReply[i] # devReply[j]
  /\ sData = OneByteEach(devReply)

\* C19 as claimed: when the Bridge answers a data datagram with a Response
\* that has data, what the Controller's network thread puts on the to-serial
\* queue for that datagram is the payload of that Response.
C19_ResponseFromBridge ==
  \A k \in 1..Len(cPut) :
     cSockIn[cPut[k].req].resp =>
       cPut[k].item = cSockIn[cPut[k].req].data

\* C20: the request the network thread has in hand is the datagram received
\* last, and every Response went to the source address of the request it
\* answers, which was the datagram received last when it was sent.
C20_ResponseToLastSender ==
  /\ uItem.id # 0 => (uItem.id = Len(rcvd) /\ uAddr = rcvd[Len(rcvd)].src)
  /\ \A i \in 1..Len(sent) : sent[i].addr = rcvd[sent[i].to].src

\* Responses went to A, then to B, then to A again.
C20_Witness ==
  \E i, j, k \in 1..Len(sent) :
     /\ i < j /\ j < k
     /\ sent[i].addr = "A" /\ sent[j].addr = "B" /\ sent[k].addr = "A"
     /\ sent[j].resp

\* C21: Connect is sent once and never again.  The Controller's network
\* thread goes from the sendto of the connect datagram straight into its
\* relaying loop without receiving anything, and every later datagram it
\* sends is a data or disconnect datagram.  A Bridge that the connect
\* datagram never reached, whatever else reaches it, stays in its
\* wait-for-connect loop (or has been ended by its own shutdown) with no
\* device open and nothing written.
ConnectReceived == \E i \in 1..Len(rcvd) : rcvd[i].rqst = "connect"
C21_ConnectOnceNoRetry ==
  /\ [](/\ \A i \in 1..Len(cNet) : (cNet[i].rqst = "connect") <=> (i = 1)
        /\ ~ConnectReceived =>
             /\ sPc \in {"wait", "done"} /\ (sPc = "done" => sTerminate)
             /\ ~devOpen /\ written = <<>>)
  /\ [][(cuPc = "connect" /\ cNet' # cNet) =>
          (cuPc' = "loop" /\ cSockIn' = cSockIn)]_vars
\* The Controller has sent its connect and two data datagrams after it.
C21_Witness ==
  /\ Len(cNet) >= 3 /\ cuPc = "loop"
  /\ cNet[1].rqst = "connect" /\ cNet[2].rqst = "data" /\ cNet[3].rqst = "data"
\* The Bridge has taken two data requests and no connect, and is idle.
C21_BridgeIdleWitness ==
  /\ ~ConnectReceived /\ sPc = "wait"
  /\ Cardinality({i \in 1..Len(rcvd) : rcvd[i].rqst = "data"} \cap idleDrop) >= 2

\* C22 as claimed: a fault of the Bridge's socket other than a timeout is
\* absorbed by the network thread.  A fault delivers no datagram, so: no
\* step of the network thread in which no datagram is received ends the
\* thread, and such a step leaves the session and the device alone.
C22_SocketFaultAbsorbed ==
  [][(uPc \in {"recv", "get"} /\ uPc' # uPc /\ rcvd' = rcvd) =>
       (uPc' \in {"recv", "done"} /\ UNCHANGED <<sVars, devVars>>)]_vars

\* C23 as claimed: the queues are drained on disconnect.  When the device
\* thread has handled a Disconnect, the to-device queue and the to-network
\* queue are both empty.
C23_QueuesDrainedOnDisconnect ==
  [][discSeen' # discSeen => (toSerial' = <<>> /\ toUdp' = <<>>)]_vars

\* C24 as claimed: after a local shutdown of the Bridge, when main has
\* joined both threads and finished, the device handle is closed.
C24_ShutdownReleasesDevice == (mPc = "exit") => ~devOpen

\* The threads of the byte relay that have an operation on the serial device
\* handle to perform: the reader its read(1), the writer its write(data),
\* main its close() on a disconnect request.
ReaderOnDevice == ENABLED (RdByte \/ RdFault)
WriterOnDevice == ENABLED (WrDatagram \/ WrFault)
MainOnDevice == ENABLED (RMRequest /\ rDev' = "closed")

\* C25 as claimed: the device handle is operated on by exactly one thread:
\* no two threads of the relay have an operation on the handle enabled in
\* the same state.
C25_OneThreadPerHandle ==
  /\ ~(ReaderOnDevice /\ WriterOnDevice)
  /\ ~(ReaderOnDevice /\ MainOnDevice)
  /\ ~(WriterOnDevice /\ MainOnDevice)

\* C26 as claimed: __write_data returns True exactly when the device took
\* every byte (the read of the reply follows), and returns False, without
\* raising and without a second write, when it took fewer or the write timed
\* out; after False the device thread is still in its main loop.
C26_WriteFailureIsResult ==
  [][(SMainData \/ SMainDataTimeout) =>
       /\ sPc' \in {"read", "main"}
       /\ sPc' = "main" => faulted'
       /\ Len(written') = Len(written) + 1]_vars

\* The Data Requests the device side of the Bridge still has to finish:
\* those waiting in the to-device queue, and the one the device thread has
\* written and is reading or dispatching the reply of.
PendingData ==
  Cardinality({i \in 1..Len(toSerial) : toSerial[i].rqst = "data"})
    + (IF sPc \in {"read", "dispatch"} THEN 1 ELSE 0)

\* C27 as claimed: strictly one request in flight: in every state of an
\* Active Bridge at most one Data Request is pending.
C27_OneRequestPending ==
  (sPc \in {"main", "read", "dispatch"}) => PendingData <= 1

\* C28 as claimed: the Bridge has a device handle open exactly when the
\* session is Active (the device thread is in its main loop, reading or
\* dispatching).
C28_OpenIffActive == devOpen <=> (sPc \in {"main", "read", "dispatch"})

\* C29 as claimed: on the Controller, what the device thread writes after
\* it dispatched frame k is the Response produced for frame k.
C29_ResponseForDispatchedFrame ==
  \A i \in 1..Len(cAns) : cAns[i].for = cAns[i].after

\* C30 as claimed: a Controller whose local device did not open does not
\* enter the relay loop: with no handle, its device thread is either still
\* before the open or has ended without an exception.
C30_NoRelayWithoutDevice == (cDev = "none") => (csPc \in {"open", "done"})

\* The control requests the local client has sent.
LSentControl(k) == \E i \in 1..Len(lNet) : lNet[i].rqst = k

FramesSent == {i \in 1..Len(sent) : sent[i].resp}
FramesQueued == [i \in 1..Len(toUdp) |-> toUdp[i].for]

\* C33: frames leave the Bridge in read order and at most once: the frames
\* sent, followed by those still queued, are in strictly increasing read
\* order, each was read after a write of its request, and each is a
\* non-empty sequence of bytes.
C33_FramesInReadOrder ==
  /\ \A i, j \in FramesSent : i < j => sent[i].for < sent[j].for
  /\ \A i \in FramesSent : \A q \in 1..Len(toUdp) :
       sent[i].for < FramesQueued[q]
  /\ \A p, q \in 1..Len(toUdp) : p < q => FramesQueued[p] < FramesQueued[q]
  /\ \A i \in FramesSent :
       sent[i].for \in Elems(written) /\ IsFrame(sent[i].data)
  /\ \A q \in 1..Len(toUdp) : FramesQueued[q] \in Elems(written)
\* Two frames have been sent, and the first was not the answer to the
\* request it was read for.
C33_Witness ==
  /\ Cardinality(FramesSent) >= 2
  /\ \E i \in 1..Len(sent) : sent[i].resp /\ sent[i].for < sent[i].to

\* The bytes the local client's reader has sent, in order.
LSentBytes ==
  LET bs == SelectSeq(lNet, LAMBDA d : d.rqst = "byte")
  IN [i \in 1..Len(bs) |-> bs[i].data]

\* s is t with some elements left out: same order, none twice.
RECURSIVE IsSubseq(_, _)
IsSubseq(s, t) ==
  IF s = <<>> THEN TRUE
  ELSE IF t = <<>> THEN FALSE
  ELSE IF Head(s) = Head(t) THEN IsSubseq(Tail(s), Tail(t))
  ELSE IsSubseq(s, Tail(t))

\* C34 (as amended): in the byte relay, at either end, the reader sends the
\* bytes it read at most once each and in the order read, leaving out those
\* whose sendto timed out; the writer writes the payloads it received at
\* most once each and in arrival order, leaving out those whose write timed
\* out or raised.
C34_RelayedInOrderAtMostOnce ==
  /\ IsSubseq(rSent, rRead) /\ IsSubseq(rWrote, rArrived)
  /\ IsSubseq(LSentBytes, lRead) /\ IsSubseq(lWrote, lArrived)
\* C34 as claimed: every byte read is sent and every payload received is
\* written.
C34_EveryByteRelayed ==
  /\ rSent = rRead /\ rWrote = rArrived
  /\ LSentBytes = lRead /\ lWrote = lArrived
\* The local client has read two bytes and sent only the second, and has
\* written the second of two payloads it received.
C34_Witness ==
  /\ Len(lRead) = 2 /\ LSentBytes = <<lRead[2]>>
  /\ Len(lArrived) = 2 /\ lWrote = <<lArrived[2]>>

\* C5 as claimed: the device handle is closed only after both relay threads
\* have exited, and no thread issues a read or write on the closed handle.
C5_CloseAfterThreadsExit ==
  /\ rDev = "closed" => (Exited(rdPc) /\ Exited(wrPc))
  /\ ~rIoOnClosed
====
